---- MODULE Spec2Model ----
(***************************************************************************)
(* A model of simple_shell.py: the tokenizer (tokenize), the parser        *)
(* (parse_tokens), the pipeline executor (run_pipeline), the job table     *)
(* (_register_job,                                                         *)
(* _update_job_status), the SIGCHLD handler (_sigchld_handler) and the     *)
(* jobs / fg built-ins.                                                    *)
(*                                                                         *)
(* Python runs a signal handler on the main thread, between two bytecode   *)
(* instructions of whatever the main thread is doing, the handler itself   *)
(* included.  The model keeps a stack of handler frames (hstack); the main *)
(* flow moves only while the stack is empty, and only the top frame moves. *)
(*                                                                         *)
(* Optional values (Python's None or a value) are tuples: <<>> is None and *)
(* <<v>> is the value v.                                                   *)
(***************************************************************************)
EXTENDS Naturals, Integers, Sequences, FiniteSets, TLC

VARIABLES
    \* ---- tokenize ----
    line,         \* the input line, a sequence of characters
    ti,           \* tokenize's index into line (1-based here)
    qstart,       \* history: for each token, where in line its opening quote
                  \* is, 0 for a token that was not quoted
    \* ---- parse_tokens ----
    tokens,       \* the token list given to parse_tokens
    i,            \* parse_tokens' index into tokens (1-based here)
    cur,          \* the command being accumulated
    pcmds,        \* parse_tokens' local list cmds
    ppc,          \* "tokenize" while tokenize scans, "loop" while parse_tokens
                  \* scans, "done" once it returned
    \* ---- the operating system ----
    proc,         \* pid -> [st, how]: the children of the interpreter, in launch order
    sigpending,   \* a SIGCHLD is pending for the interpreter
    \* ---- module state ----
    jobs,         \* _jobs: jid -> [pids, cmdline, status]
    next_job_id,  \* _next_job_id
    lock,         \* _jobs_lock: "free", or who holds it: "main" or "handler"
    \* ---- the main flow ----
    pc,           \* where the main flow is
    cmds,         \* run_pipeline's argument
    idx,          \* run_pipeline's loop index (1-based here)
    procs,        \* run_pipeline's list procs, as pids
    in_file,      \* run_pipeline's in_file:  "none", "open" or "closed"
    out_file,     \* run_pipeline's out_file: "none", "open" or "closed"
    pipes,        \* for each of procs, its .stdout in the parent: "none", "open" or "closed"
    fgjid,        \* _builtin_fg's jid
    fgpids,       \* _builtin_fg's pids, the part still to wait for
    ret,          \* what the last call of the main flow returned
    exitpath,     \* history: the return statement the last run_pipeline call left by
    entry_next,   \* history: _next_job_id when the last run_pipeline call began
    issued,       \* history: the job ids _register_job returned, in order
    mout,         \* what the current (or last) call of the main flow printed
    \* ---- the handler ----
    hstack,       \* the frames of _sigchld_handler in progress, innermost last
    hout          \* what the handler's loop iteration in progress has printed

tvars == <<line, ti, qstart>>
pvars == <<tvars, tokens, i, cur, pcmds, ppc>>
osvars == <<proc, sigpending>>
jvars == <<jobs, next_job_id, lock>>
mvars == <<pc, cmds, idx, procs, in_file, out_file, pipes, fgjid, fgpids, ret, mout,
          exitpath, entry_next, issued>>
hvars == <<hstack, hout>>
shvars == <<osvars, jvars, mvars, hvars>>
vars == <<pvars, shvars>>

-----------------------------------------------------------------------------
(* Bounds of the model. *)

\* the longest line tokenize is given
MaxLine == 5
\* the longest token list parse_tokens is given
MaxTokens == 4
\* the longest pipeline run_pipeline is given
MaxStages == 2
\* the number of child processes launched in one run of the interpreter
MaxProcs == 2
\* the number of jobs registered in one run of the interpreter
MaxJobs == 2
\* the largest exit code a child exits with
MaxExit == 1
\* the deepest nesting of handler invocations
MaxNest == 2

\* the signal Popen.kill() sends
SIGKILL == 9

None == <<>>
Some(v) == <<v>>

-----------------------------------------------------------------------------
(* tokenize *)

\* the characters of the model's lines
Chars == {"a", " ", "|", "<", ">", "&", "\"", "'"}

\* the sequences over S of length at most n
SeqUpTo(S, n) == UNION {[1..k -> S] : k \in 0..n}

\* ch.isspace()
IsSpace(ch) == ch = " "
\* the single-character specials
Specials == {"|", "<", ">", "&"}
Quotes == {"\"", "'"}

\* L = len(line)
LL == Len(line)
\* ch = line[i]
ch == line[ti]

RECURSIVE Join(_)
\* ''.join(buf)
Join(buf) == IF buf = <<>> THEN "" ELSE Head(buf) \o Join(Tail(buf))

RECURSIVE ScanQuoted(_, _)
\* where the loop "while i < L and line[i] != quote" stops when begun at k
ScanQuoted(k, quote) ==
    IF k <= LL /\ line[k] # quote THEN ScanQuoted(k + 1, quote) ELSE k

RECURSIVE ScanNormal(_)
\* where the loop of a normal token stops when begun at k
ScanNormal(k) ==
    IF k <= LL /\ ~IsSpace(line[k]) /\ line[k] \notin (Specials \cup Quotes)
    THEN ScanNormal(k + 1)
    ELSE k

\* the characters of line from k to e - 1, as buf collects them
Buf(k, e) == SubSeq(line, k, e - 1)

\* ch == '>' and the next character is '>' too
AtAppend == ch = ">" /\ ti + 1 <= LL /\ line[ti + 1] = ">"

\* skip spaces
TokSpace ==
    /\ ppc = "tokenize" /\ ti <= LL
    /\ IsSpace(ch)
    /\ ti' = ti + 1
    /\ UNCHANGED <<line, qstart, tokens, i, cur, pcmds, ppc, shvars>>

\* append redirection
TokAppend ==
    /\ ppc = "tokenize" /\ ti <= LL
    /\ ~IsSpace(ch) /\ AtAppend
    /\ tokens' = Append(tokens, ">>")
    /\ qstart' = Append(qstart, 0)
    /\ ti' = ti + 2
    /\ UNCHANGED <<line, i, cur, pcmds, ppc, shvars>>

\* single-char specials
TokSpecial ==
    /\ ppc = "tokenize" /\ ti <= LL
    /\ ~IsSpace(ch) /\ ~AtAppend /\ ch \in Specials
    /\ tokens' = Append(tokens, ch)
    /\ qstart' = Append(qstart, 0)
    /\ ti' = ti + 1
    /\ UNCHANGED <<line, i, cur, pcmds, ppc, shvars>>

\* quoted string: the text up to the matching quote (or to the end of the
\* line), and the closing quote skipped
TokQuoted ==
    /\ ppc = "tokenize" /\ ti <= LL
    /\ ch \in Quotes
    /\ LET e == ScanQuoted(ti + 1, ch)
       IN  /\ tokens' = Append(tokens, Join(Buf(ti + 1, e)))
           /\ ti' = IF e <= LL THEN e + 1 ELSE e
    /\ qstart' = Append(qstart, ti)
    /\ UNCHANGED <<line, i, cur, pcmds, ppc, shvars>>

\* normal token
TokNormal ==
    /\ ppc = "tokenize" /\ ti <= LL
    /\ ~IsSpace(ch) /\ ch \notin (Specials \cup Quotes)
    /\ LET e == ScanNormal(ti)
       IN  /\ tokens' = Append(tokens, Join(Buf(ti, e)))
           /\ ti' = e
    /\ qstart' = Append(qstart, 0)
    /\ UNCHANGED <<line, i, cur, pcmds, ppc, shvars>>

\* return tokens: parse_line hands them to parse_tokens
TokEnd ==
    /\ ppc = "tokenize" /\ ti > LL
    /\ ppc' = "loop"
    /\ UNCHANGED <<tvars, tokens, i, cur, pcmds, shvars>>

-----------------------------------------------------------------------------
(* parse_tokens *)

Operators == {"|", "<", ">", ">>", "&"}
\* the word tokens of the model; "" is the token of an empty quoted string
Words == {"a", ""}
TokenSet == Operators \cup Words

\* Python's truth value of an optional string: None and "" are false
Truthy(o) == o # None /\ o[1] # ""

EmptyCmd == [argv |-> <<>>, in |-> None, out |-> None, append |-> FALSE, bg |-> FALSE]

L == Len(tokens)

\* a "|" branch that appends the accumulator and goes on with the same one
ParsePipeKeepsCur ==
    /\ ppc = "loop" /\ i <= L /\ tokens[i] = "|"
    /\ pcmds' = Append(pcmds, cur)
    /\ i' = i + 1
    /\ UNCHANGED <<tvars, tokens, cur, ppc, shvars>>

\* t == "|"
ParsePipe ==
    /\ ppc = "loop" /\ i <= L /\ tokens[i] = "|"
    /\ pcmds' = Append(pcmds, cur)
    /\ cur' = EmptyCmd
    /\ i' = i + 1
    /\ UNCHANGED <<tvars, tokens, ppc, shvars>>

\* t == "<"
ParseIn ==
    /\ ppc = "loop" /\ i <= L /\ tokens[i] = "<"
    /\ cur' = IF i + 1 <= L THEN [cur EXCEPT !.in = Some(tokens[i + 1])] ELSE cur
    /\ i' = i + 2
    /\ UNCHANGED <<tvars, tokens, pcmds, ppc, shvars>>

\* t == ">"
ParseOut ==
    /\ ppc = "loop" /\ i <= L /\ tokens[i] = ">"
    /\ cur' = IF i + 1 <= L
              THEN [cur EXCEPT !.out = Some(tokens[i + 1]), !.append = FALSE]
              ELSE cur
    /\ i' = i + 2
    /\ UNCHANGED <<tvars, tokens, pcmds, ppc, shvars>>

\* t == ">>"
ParseAppend ==
    /\ ppc = "loop" /\ i <= L /\ tokens[i] = ">>"
    /\ cur' = IF i + 1 <= L
              THEN [cur EXCEPT !.out = Some(tokens[i + 1]), !.append = TRUE]
              ELSE cur
    /\ i' = i + 2
    /\ UNCHANGED <<tvars, tokens, pcmds, ppc, shvars>>

\* t == "&"
ParseBg ==
    /\ ppc = "loop" /\ i <= L /\ tokens[i] = "&"
    /\ cur' = [cur EXCEPT !.bg = TRUE]
    /\ i' = i + 1
    /\ UNCHANGED <<tvars, tokens, pcmds, ppc, shvars>>

\* any other token is a word
ParseWord ==
    /\ ppc = "loop" /\ i <= L /\ tokens[i] \notin Operators
    /\ cur' = [cur EXCEPT !.argv = Append(@, tokens[i])]
    /\ i' = i + 1
    /\ UNCHANGED <<tvars, tokens, pcmds, ppc, shvars>>

\* the drop rule applied to the last accumulator
KeepCur(c) == c.argv # <<>> \/ Truthy(c.in) \/ Truthy(c.out) \/ c.bg

\* the loop is over: the last accumulator is kept or dropped, and cmds returned
ParseEnd ==
    /\ ppc = "loop" /\ i > L
    /\ pcmds' = IF KeepCur(cur) THEN Append(pcmds, cur) ELSE pcmds
    /\ ppc' = "done"
    /\ UNCHANGED <<tvars, tokens, i, cur, shvars>>

ParseNext ==
    \/ ParsePipe
    \/ ParseIn
    \/ ParseOut
    \/ ParseAppend
    \/ ParseBg
    \/ ParseWord
    \/ ParseEnd

-----------------------------------------------------------------------------
(* The operating system: child processes and SIGCHLD. *)

ExitCodes == 0..MaxExit

\* how a child ends: exit(c), or killed by a signal
Exited(c) == <<"exit", c>>
Signaled(s) == <<"signal", s>>
Terminations == {Exited(c) : c \in ExitCodes} \cup {Signaled(SIGKILL)}

Pids == DOMAIN proc

Children == {p \in Pids : proc[p].st \in {"running", "zombie"}}
Zombies == {p \in Pids : proc[p].st = "zombie"}

\* os.WIFEXITED / os.WEXITSTATUS on a wait status
WIFEXITED(how) == how[1] = "exit"
WEXITSTATUS(how) == how[2]

\* a running child ends, by itself or by a signal from outside the
\* interpreter; the kernel posts SIGCHLD
ChildTerminates ==
    \E p \in Pids, how \in Terminations :
        /\ proc[p].st = "running"
        /\ proc' = [proc EXCEPT ![p] = [st |-> "zombie", how |-> how]]
        /\ sigpending' = TRUE
        /\ UNCHANGED <<pvars, jvars, mvars, hvars>>

-----------------------------------------------------------------------------
(* The job table. *)

Running == <<"running">>
Stopped == <<"stopped">>
Done(c) == <<"done", c>>
\* the status _builtin_fg writes: 'done', with no exit code
DoneNoCode == <<"done">>

\* an insertion that drops every other binding
PutAlone(table, jid, job) == (jid :> job)

\* dict insertion: jid bound to job, replacing a former binding
Put(table, jid, job) == (jid :> job) @@ table

\* the job _update_job_status finds for pid: the first, in insertion order,
\* whose pids hold pid (None if there is none)
OwnerOf(pid) ==
    LET owners == {j \in DOMAIN jobs : \E k \in DOMAIN jobs[j].pids : jobs[j].pids[k] = pid}
    IN  IF owners = {} THEN None
        ELSE Some(CHOOSE j \in owners : \A j2 \in owners : j <= j2)

\* the status _update_job_status writes for an exit code (None: no exit code)
NewStatus(exitcode) == IF exitcode # None THEN Done(exitcode[1]) ELSE Stopped

\* the table after _update_job_status(pid, exitcode)
UpdatedJobs(pid, exitcode) ==
    LET o == OwnerOf(pid)
    IN  IF o = None THEN jobs
        ELSE [jobs EXCEPT ![o[1]].status = NewStatus(exitcode)]

-----------------------------------------------------------------------------
(* _sigchld_handler *)

top == hstack[Len(hstack)]
SetTop(f) == [hstack EXCEPT ![Len(hstack)] = f]
Pop == SubSeq(hstack, 1, Len(hstack) - 1)

\* the pending SIGCHLD is delivered: Python calls the handler on the main
\* thread, on top of whatever runs there
HandlerEnter ==
    /\ sigpending
    /\ Len(hstack) < MaxNest
    /\ sigpending' = FALSE
    /\ hstack' = Append(hstack, [pc |-> "waitpid", pid |-> 0, exitcode |-> None])
    /\ UNCHANGED <<pvars, proc, jvars, mvars, hout>>

\* os.waitpid(-1, WNOHANG) raises ChildProcessError: no child is left
HandlerNoChild ==
    /\ hstack # <<>> /\ top.pc = "waitpid"
    /\ Children = {}
    /\ hstack' = Pop
    /\ hout' = <<>>
    /\ UNCHANGED <<pvars, osvars, jvars, mvars>>

\* os.waitpid(-1, WNOHANG) returns pid 0: children exist, none has ended
HandlerNoneEnded ==
    /\ hstack # <<>> /\ top.pc = "waitpid"
    /\ Children # {} /\ Zombies = {}
    /\ hstack' = Pop
    /\ hout' = <<>>
    /\ UNCHANGED <<pvars, osvars, jvars, mvars>>

\* the exit code the handler computes from the wait status
HandlerExitcode(how) == IF WIFEXITED(how) THEN Some(WEXITSTATUS(how)) ELSE None

\* os.waitpid(-1, WNOHANG) reaps one ended child, whichever the kernel picks
HandlerReap ==
    /\ hstack # <<>> /\ top.pc = "waitpid"
    /\ \E p \in Zombies :
        /\ proc' = [proc EXCEPT ![p].st = "reaped"]
        /\ hstack' = SetTop([pc |-> "lock", pid |-> p,
                             exitcode |-> HandlerExitcode(proc[p].how)])
    /\ hout' = <<>>
    /\ UNCHANGED <<pvars, sigpending, jvars, mvars>>

\* _update_job_status: with _jobs_lock (blocks while the lock is held)
HandlerLock ==
    /\ hstack # <<>> /\ top.pc = "lock"
    /\ lock = "free"
    /\ lock' = "handler"
    /\ hstack' = SetTop([top EXCEPT !.pc = "update"])
    /\ UNCHANGED <<pvars, osvars, jobs, next_job_id, mvars, hout>>

\* what one loop iteration of the handler prints for the job id it got
HandlerPrints(jid, pid, exitcode) ==
    (IF jid # None THEN <<<<"[job] process exited with", jid[1], pid, exitcode>>>> ELSE <<>>)
        \o <<<<"$ ">>>>

\* the body of _update_job_status, the lock released, and the prints that
\* end the loop iteration
HandlerUpdate ==
    /\ hstack # <<>> /\ top.pc = "update"
    /\ jobs' = UpdatedJobs(top.pid, top.exitcode)
    /\ lock' = "free"
    /\ hout' = HandlerPrints(OwnerOf(top.pid), top.pid, top.exitcode)
    /\ hstack' = SetTop([pc |-> "waitpid", pid |-> 0, exitcode |-> None])
    /\ UNCHANGED <<pvars, osvars, next_job_id, mvars>>

-----------------------------------------------------------------------------
(* run_pipeline *)

\* the programs a stage names
Progs == {"a", "b", "c", "d"}

\* the command dicts run_pipeline is given: parse_tokens' dicts (the append
\* flag only picks the mode of the output file and is left False)
Stage == [argv : {<<>>} \cup {<<p>> : p \in Progs},
          in : {None, Some("f")},
          out : {None, Some("g")},
          append : {FALSE},
          bg : BOOLEAN]

\* the program the model's pipelines name at stage k: a pipeline names a
\* different program at each stage
ProgAt(k) == <<"a", "b", "c", "d">>[k]

\* run_pipeline reads 'in' of the first dict only, and 'out' and 'bg' of the
\* last dict only: the pipelines of the model set them nowhere else, and name
\* one program per stage
SetWhereRead(c) ==
    \A k \in DOMAIN c :
        /\ c[k].argv # <<>> => c[k].argv = <<ProgAt(k)>>
        /\ k > 1 => c[k].in = None
        /\ k < Len(c) => c[k].out = None /\ ~c[k].bg

\* main() calls run_pipeline with what parse_tokens returned, when that is
\* not empty: the last dict passed the drop rule
Pipelines ==
    {c \in SeqUpTo(Stage, MaxStages) : c # <<>> /\ KeepCur(c[Len(c)]) /\ SetWhereRead(c)}

\* the stages of c that have an argv
Launchable(c) == {k \in DOMAIN c : c[k].argv # <<>>}

RECURSIVE Flatten(_)
\* sum([...], []): the argv lists, concatenated
Flatten(ss) == IF ss = <<>> THEN <<>> ELSE Head(ss) \o Flatten(Tail(ss))

\* ' '.join(sum([c.get('argv', []) for c in cmds], [])), as the list of words
Cmdline(c) == Flatten([k \in DOMAIN c |-> c[k].argv])

\* a finally clause that closes nothing
FinallyLeavesOpen(f) == f

\* the finally clause: a file that is open is closed
Finally(f) == IF f = "open" THEN "closed" ELSE f

\* a cleanup that kills nothing
KillNone(pr, ps) == pr

\* a cleanup that kills the last of ps only
KillLast(pr, ps) ==
    [p \in DOMAIN pr |->
        IF ps # <<>> /\ ps[Len(ps)] = p /\ pr[p].st = "running"
        THEN [st |-> "zombie", how |-> Signaled(SIGKILL)]
        ELSE pr[p]]

\* Popen.kill() on each of ps: poll() first, which reaps a child that has
\* ended; a child still running gets SIGKILL
KillAll(pr, ps) ==
    [p \in DOMAIN pr |->
        IF \E k \in DOMAIN ps : ps[k] = p
        THEN CASE pr[p].st = "running" -> [st |-> "zombie", how |-> Signaled(SIGKILL)]
               [] pr[p].st = "zombie" -> [pr[p] EXCEPT !.st = "reaped"]
               [] OTHER -> pr[p]
        ELSE pr[p]]

AnyRunning(ps) == \E k \in DOMAIN ps : proc[ps[k]].st = "running"

\* Popen.wait()'s return code for a wait status: the exit code, or minus
\* the signal
Returncode(how) == IF WIFEXITED(how) THEN WEXITSTATUS(how) ELSE 0 - how[2]

Main == hstack = <<>>

\* main() read a line whose commands are c and calls run_pipeline(c)
StartPipeline ==
    /\ Main /\ pc = "idle"
    /\ \E c \in Pipelines :
        /\ Len(proc) + Cardinality(Launchable(c)) <= MaxProcs
        /\ c[Len(c)].bg => next_job_id <= MaxJobs
        /\ cmds' = c
    /\ pc' = "loop"
    /\ UNCHANGED <<pvars, osvars, jvars, idx, procs, in_file, out_file, pipes, fgjid, fgpids,
                   ret, mout, exitpath, entry_next, issued, hvars>>

cmd == cmds[idx]
IsFirst == idx = 1
IsLast == idx = Len(cmds)

\* if not argv: continue
SkipStage ==
    /\ Main /\ pc = "loop" /\ idx <= Len(cmds)
    /\ cmd.argv = <<>>
    /\ idx' = idx + 1
    /\ UNCHANGED <<pvars, osvars, jvars, pc, cmds, procs, in_file, out_file, pipes,
                   fgjid, fgpids, ret, mout, exitpath, entry_next, issued, hvars>>

WantsIn == IsFirst /\ Truthy(cmd.in)
WantsOut == IsLast /\ Truthy(cmd.out)

\* in_file after the stage's redirection: _open_for_read returns the file, or
\* prints and returns None
InFileAfter(okIn) == IF WantsIn THEN (IF okIn THEN "open" ELSE "none") ELSE in_file
OutFileAfter(okOut) == IF WantsOut THEN (IF okOut THEN "open" ELSE "none") ELSE out_file

\* what _open_for_read and _open_for_write print
OpenPrints(okIn, okOut) ==
    (IF WantsIn /\ ~okIn THEN <<<<"redirection error (input)">>>> ELSE <<>>)
        \o (IF WantsOut /\ ~okOut THEN <<<<"redirection error (output)">>>> ELSE <<>>)

\* stdout=subprocess.PIPE: the stage is not the last and has no output file
StdoutIsPipe == ~WantsOut /\ ~IsLast

\* prev_proc.stdout.close(), when there is a prev_proc with a stdout
ClosePrev(pp) ==
    IF procs # <<>> /\ pp[Len(procs)] # "none"
    THEN [pp EXCEPT ![Len(procs)] = "closed"]
    ELSE pp

\* one loop iteration in which Popen succeeds
LaunchOk ==
    /\ Main /\ pc = "loop" /\ idx <= Len(cmds)
    /\ cmd.argv # <<>>
    /\ \E okIn, okOut \in BOOLEAN :
        /\ in_file' = InFileAfter(okIn)
        /\ out_file' = OutFileAfter(okOut)
        /\ mout' = mout \o OpenPrints(okIn, okOut)
    /\ proc' = Append(proc, [st |-> "running", how |-> None])
    /\ procs' = Append(procs, Len(proc) + 1)
    /\ pipes' = Append(ClosePrev(pipes), IF StdoutIsPipe THEN "open" ELSE "none")
    /\ idx' = idx + 1
    /\ UNCHANGED <<pvars, sigpending, jvars, pc, cmds, fgjid, fgpids, ret,
                   exitpath, entry_next, issued, hvars>>

\* the cleanup both except clauses do, the return and the finally clause
LaunchFailed(okIn, okOut, msg, path) ==
    /\ mout' = (mout \o OpenPrints(okIn, okOut)) \o <<msg>>
    /\ proc' = KillAll(proc, procs)
    /\ sigpending' = (sigpending \/ AnyRunning(procs))
    /\ ret' = Some(<<FALSE, None>>)
    /\ exitpath' = path
    /\ in_file' = Finally(InFileAfter(okIn))
    /\ out_file' = Finally(OutFileAfter(okOut))
    /\ pc' = "return"
    /\ UNCHANGED <<pvars, jvars, cmds, idx, procs, pipes, fgjid, fgpids,
                   entry_next, issued, hvars>>

\* one loop iteration in which Popen raises FileNotFoundError
LaunchNotFound ==
    /\ Main /\ pc = "loop" /\ idx <= Len(cmds)
    /\ cmd.argv # <<>>
    /\ \E okIn, okOut \in BOOLEAN :
        LaunchFailed(okIn, okOut, <<"command not found", cmd.argv[1]>>, "not found")

\* one loop iteration in which Popen raises another exception
LaunchError ==
    /\ Main /\ pc = "loop" /\ idx <= Len(cmds)
    /\ cmd.argv # <<>>
    /\ \E okIn, okOut \in BOOLEAN :
        LaunchFailed(okIn, okOut, <<"failed to execute", cmd.argv>>, "failed")

\* if not procs: return False, None
NoProcs ==
    /\ Main /\ pc = "loop" /\ idx > Len(cmds)
    /\ procs = <<>>
    /\ ret' = Some(<<FALSE, None>>)
    /\ exitpath' = "no procs"
    /\ in_file' = Finally(in_file)
    /\ out_file' = Finally(out_file)
    /\ pc' = "return"
    /\ UNCHANGED <<pvars, osvars, jvars, cmds, idx, procs, pipes, fgjid, fgpids, mout,
                   entry_next, issued, hvars>>

is_bg == cmds[Len(cmds)].bg

\* if is_bg: on to _register_job
ToBackground ==
    /\ Main /\ pc = "loop" /\ idx > Len(cmds)
    /\ procs # <<>> /\ is_bg
    /\ pc' = "register"
    /\ UNCHANGED <<pvars, osvars, jvars, cmds, idx, procs, in_file, out_file, pipes,
                   fgjid, fgpids, ret, mout, exitpath, entry_next, issued, hvars>>

\* else: on to procs[-1].wait()
ToForeground ==
    /\ Main /\ pc = "loop" /\ idx > Len(cmds)
    /\ procs # <<>> /\ ~is_bg
    /\ pc' = "wait"
    /\ UNCHANGED <<pvars, osvars, jvars, cmds, idx, procs, in_file, out_file, pipes,
                   fgjid, fgpids, ret, mout, exitpath, entry_next, issued, hvars>>

\* _register_job: with _jobs_lock
RegisterLock ==
    /\ Main /\ pc = "register"
    /\ lock = "free"
    /\ lock' = "main"
    /\ pc' = "registering"
    /\ UNCHANGED <<pvars, osvars, jobs, next_job_id, cmds, idx, procs, in_file, out_file,
                   pipes, fgjid, fgpids, ret, mout, exitpath, entry_next, issued, hvars>>

\* a _register_job that forgets the increment
NextJobIdStuck(n) == n

\* _next_job_id after _register_job took an id
NextJobId(n) == n + 1

\* the body of _register_job, the lock released, the announcement, the
\* return and the finally clause
RegisterJob ==
    /\ Main /\ pc = "registering"
    /\ LET jid == next_job_id
       IN  /\ next_job_id' = NextJobId(next_job_id)
           /\ jobs' = Put(jobs, jid, [pids |-> procs, cmdline |-> Cmdline(cmds),
                                      status |-> Running])
           /\ issued' = Append(issued, jid)
           /\ mout' = Append(mout, <<"[job]", jid, procs[1]>>)
           /\ ret' = Some(<<TRUE, Some(jid)>>)
    /\ lock' = "free"
    /\ exitpath' = "background"
    /\ in_file' = Finally(in_file)
    /\ out_file' = Finally(out_file)
    /\ pc' = "return"
    /\ UNCHANGED <<pvars, osvars, cmds, idx, procs, pipes, fgjid, fgpids, entry_next, hvars>>

last == procs[Len(procs)]

\* procs[-1].wait() returns: the last process has ended and wait reaps it
WaitReaps ==
    /\ Main /\ pc = "wait"
    /\ proc[last].st = "zombie"
    /\ proc' = [proc EXCEPT ![last].st = "reaped"]
    /\ ret' = Some(<<FALSE, Some(Returncode(proc[last].how))>>)
    /\ exitpath' = "waited"
    /\ in_file' = Finally(in_file)
    /\ out_file' = Finally(out_file)
    /\ pc' = "return"
    /\ UNCHANGED <<pvars, sigpending, jvars, cmds, idx, procs, pipes, fgjid, fgpids, mout,
                   entry_next, issued, hvars>>

\* procs[-1].wait() returns: the handler has reaped the last process, waitpid
\* raises ChildProcessError inside Popen, which then reports return code 0
WaitFindsNoChild ==
    /\ Main /\ pc = "wait"
    /\ proc[last].st = "reaped"
    /\ ret' = Some(<<FALSE, Some(0)>>)
    /\ exitpath' = "waited"
    /\ in_file' = Finally(in_file)
    /\ out_file' = Finally(out_file)
    /\ pc' = "return"
    /\ UNCHANGED <<pvars, osvars, jvars, cmds, idx, procs, pipes, fgjid, fgpids, mout,
                   entry_next, issued, hvars>>

\* KeyboardInterrupt during procs[-1].wait(): every process is killed, rc
\* stays None
WaitInterrupted ==
    /\ Main /\ pc = "wait"
    /\ proc' = KillAll(proc, procs)
    /\ sigpending' = (sigpending \/ AnyRunning(procs))
    /\ ret' = Some(<<FALSE, None>>)
    /\ exitpath' = "interrupted"
    /\ in_file' = Finally(in_file)
    /\ out_file' = Finally(out_file)
    /\ pc' = "return"
    /\ UNCHANGED <<pvars, jvars, cmds, idx, procs, pipes, fgjid, fgpids, mout,
                   entry_next, issued, hvars>>

-----------------------------------------------------------------------------
(* The built-ins jobs and fg. *)

\* main() read the line "jobs"
StartJobs ==
    /\ Main /\ pc = "idle"
    /\ pc' = "jobs"
    /\ UNCHANGED <<pvars, osvars, jvars, cmds, idx, procs, in_file, out_file, pipes,
                   fgjid, fgpids, ret, mout, exitpath, entry_next, issued, hvars>>

\* _builtin_jobs: with _jobs_lock
JobsLock ==
    /\ Main /\ pc = "jobs"
    /\ lock = "free"
    /\ lock' = "main"
    /\ pc' = "listing"
    /\ UNCHANGED <<pvars, osvars, jobs, next_job_id, cmds, idx, procs, in_file, out_file,
                   pipes, fgjid, fgpids, ret, mout, exitpath, entry_next, issued, hvars>>

\* the lines _builtin_jobs prints
JobsLines ==
    IF DOMAIN jobs = {} THEN <<<<"No background jobs">>>>
    ELSE [j \in DOMAIN jobs |-> <<j, jobs[j].status, jobs[j].pids, jobs[j].cmdline>>]

\* the body of _builtin_jobs and the lock released
ListJobs ==
    /\ Main /\ pc = "listing"
    /\ mout' = JobsLines
    /\ lock' = "free"
    /\ ret' = Some(<<TRUE>>)
    /\ pc' = "return"
    /\ UNCHANGED <<pvars, osvars, jobs, next_job_id, cmds, idx, procs, in_file, out_file,
                   pipes, fgjid, fgpids, exitpath, entry_next, issued, hvars>>

\* main() read "fg" with no argument, or with one that is not a number
FgBadArgument ==
    /\ Main /\ pc = "idle"
    /\ \E msg \in {"fg: job id required", "fg: numeric job id required"} :
        mout' = <<<<msg>>>>
    /\ ret' = Some(<<TRUE>>)
    /\ pc' = "return"
    /\ UNCHANGED <<pvars, osvars, jvars, cmds, idx, procs, in_file, out_file, pipes,
                   fgjid, fgpids, exitpath, entry_next, issued, hvars>>

\* main() read "fg <jid>": a job id of the table, or one past it
StartFg ==
    /\ Main /\ pc = "idle"
    /\ \E j \in 0..next_job_id : fgjid' = j
    /\ pc' = "fg"
    /\ UNCHANGED <<pvars, osvars, jvars, cmds, idx, procs, in_file, out_file, pipes,
                   fgpids, ret, mout, exitpath, entry_next, issued, hvars>>

\* _builtin_fg: the first with _jobs_lock
FgLock ==
    /\ Main /\ pc = "fg"
    /\ lock = "free"
    /\ lock' = "main"
    /\ pc' = "fg lookup"
    /\ UNCHANGED <<pvars, osvars, jobs, next_job_id, cmds, idx, procs, in_file, out_file,
                   pipes, fgjid, fgpids, ret, mout, exitpath, entry_next, issued, hvars>>

\* a not-found branch that empties the table
FgNotFoundClears ==
    /\ hstack = <<>> /\ pc = "fg lookup"
    /\ fgjid \notin DOMAIN jobs
    /\ mout' = <<<<"fg: job not found", fgjid>>>>
    /\ lock' = "free"
    /\ ret' = Some(<<TRUE>>)
    /\ pc' = "return"
    /\ jobs' = <<>>
    /\ UNCHANGED <<pvars, osvars, next_job_id, cmds, idx, procs, in_file, out_file,
                   pipes, fgjid, fgpids, exitpath, entry_next, issued, hvars>>

\* job = _jobs.get(jid) is None: the report, the lock released, the return
FgNotFound ==
    /\ Main /\ pc = "fg lookup"
    /\ fgjid \notin DOMAIN jobs
    /\ mout' = <<<<"fg: job not found", fgjid>>>>
    /\ lock' = "free"
    /\ ret' = Some(<<TRUE>>)
    /\ pc' = "return"
    /\ UNCHANGED <<pvars, osvars, jobs, next_job_id, cmds, idx, procs, in_file, out_file,
                   pipes, fgjid, fgpids, exitpath, entry_next, issued, hvars>>

\* the job is there: its pids are taken and the lock released
FgFound ==
    /\ Main /\ pc = "fg lookup"
    /\ fgjid \in DOMAIN jobs
    /\ fgpids' = jobs[fgjid].pids
    /\ mout' = <<<<"Bringing job to foreground", fgjid, jobs[fgjid].cmdline>>>>
    /\ lock' = "free"
    /\ pc' = "fg wait"
    /\ UNCHANGED <<pvars, osvars, jobs, next_job_id, cmds, idx, procs, in_file, out_file,
                   pipes, fgjid, ret, exitpath, entry_next, issued, hvars>>

\* os.waitpid(pid, 0) returns: the process has ended and is reaped here
FgWaitReaps ==
    /\ Main /\ pc = "fg wait" /\ fgpids # <<>>
    /\ proc[Head(fgpids)].st = "zombie"
    /\ proc' = [proc EXCEPT ![Head(fgpids)].st = "reaped"]
    /\ fgpids' = Tail(fgpids)
    /\ UNCHANGED <<pvars, sigpending, jvars, pc, cmds, idx, procs, in_file, out_file, pipes,
                   fgjid, ret, mout, exitpath, entry_next, issued, hvars>>

\* os.waitpid(pid, 0) raises ChildProcessError (the handler reaped the
\* process), which is swallowed
FgWaitFindsNoChild ==
    /\ Main /\ pc = "fg wait" /\ fgpids # <<>>
    /\ proc[Head(fgpids)].st = "reaped"
    /\ fgpids' = Tail(fgpids)
    /\ UNCHANGED <<pvars, osvars, jvars, pc, cmds, idx, procs, in_file, out_file, pipes,
                   fgjid, ret, mout, exitpath, entry_next, issued, hvars>>

\* the second with _jobs_lock
FgLockAgain ==
    /\ Main /\ pc = "fg wait" /\ fgpids = <<>>
    /\ lock = "free"
    /\ lock' = "main"
    /\ pc' = "fg done"
    /\ UNCHANGED <<pvars, osvars, jobs, next_job_id, cmds, idx, procs, in_file, out_file,
                   pipes, fgjid, fgpids, ret, mout, exitpath, entry_next, issued, hvars>>

\* job['status'] = 'done', the lock released, the return
FgDone ==
    /\ Main /\ pc = "fg done"
    /\ jobs' = [jobs EXCEPT ![fgjid].status = DoneNoCode]
    /\ lock' = "free"
    /\ ret' = Some(<<TRUE>>)
    /\ pc' = "return"
    /\ UNCHANGED <<pvars, osvars, next_job_id, cmds, idx, procs, in_file, out_file,
                   pipes, fgjid, fgpids, mout, exitpath, entry_next, issued, hvars>>

\* the call is over and main() is back at its prompt: the call's locals are
\* gone, and the model follows its Popen objects no further
Return ==
    /\ Main /\ pc = "return"
    /\ cmds' = <<>>
    /\ idx' = 1
    /\ procs' = <<>>
    /\ in_file' = "none"
    /\ out_file' = "none"
    /\ pipes' = <<>>
    /\ fgjid' = 0
    /\ fgpids' = <<>>
    /\ ret' = None
    /\ mout' = <<>>
    /\ exitpath' = ""
    /\ entry_next' = next_job_id
    /\ pc' = "idle"
    /\ UNCHANGED <<pvars, osvars, jvars, issued, hvars>>

-----------------------------------------------------------------------------
(* The state after the module is loaded. *)

\* the main flow between two calls: no call's locals exist
NoLocals ==
    /\ cmds = <<>>
    /\ idx = 1
    /\ procs = <<>>
    /\ in_file = "none"
    /\ out_file = "none"
    /\ pipes = <<>>
    /\ fgjid = 0
    /\ fgpids = <<>>
    /\ ret = None
    /\ mout = <<>>
    /\ exitpath = ""
    /\ entry_next = next_job_id

ShellInit ==
    /\ proc = <<>>
    /\ sigpending = FALSE
    /\ jobs = <<>>
    /\ next_job_id = 1
    /\ lock = "free"
    /\ pc = "idle"
    /\ NoLocals
    /\ issued = <<>>
    /\ hstack = <<>>
    /\ hout = <<>>

\* parse_line run on every line within the bound
LineInit ==
    /\ line \in SeqUpTo(Chars, MaxLine)
    /\ ti = 1
    /\ qstart = <<>>
    /\ tokens = <<>>
    /\ i = 1
    /\ cur = EmptyCmd
    /\ pcmds = <<>>
    /\ ppc = "tokenize"
    /\ ShellInit

LineNext ==
    \/ TokSpace
    \/ TokAppend
    \/ TokSpecial
    \/ TokQuoted
    \/ TokNormal
    \/ TokEnd
    \/ ParsePipe
    \/ ParseIn
    \/ ParseOut
    \/ ParseAppend
    \/ ParseBg
    \/ ParseWord
    \/ ParseEnd

LineSpec == LineInit /\ [][LineNext]_vars

ParseInit ==
    /\ line = <<>>
    /\ ti = 1
    /\ tokens \in SeqUpTo(TokenSet, MaxTokens)
    /\ qstart = [k \in DOMAIN tokens |-> 0]
    /\ i = 1
    /\ cur = EmptyCmd
    /\ pcmds = <<>>
    /\ ppc = "loop"
    /\ ShellInit

\* parse_tokens run on every token list within the bound
ParseSpec == ParseInit /\ [][ParseNext]_vars

\* the interpreter: no parse is modelled, main() picks its commands
Init ==
    /\ line = <<>>
    /\ ti = 1
    /\ qstart = <<>>
    /\ tokens = <<>>
    /\ i = 1
    /\ cur = EmptyCmd
    /\ pcmds = <<>>
    /\ ppc = "done"
    /\ ShellInit

Next ==
    \/ ChildTerminates
    \/ HandlerEnter
    \/ HandlerNoChild
    \/ HandlerNoneEnded
    \/ HandlerReap
    \/ HandlerLock
    \/ HandlerUpdate
    \/ StartPipeline
    \/ SkipStage
    \/ LaunchOk
    \/ LaunchNotFound
    \/ LaunchError
    \/ NoProcs
    \/ ToBackground
    \/ ToForeground
    \/ RegisterLock
    \/ RegisterJob
    \/ WaitReaps
    \/ WaitFindsNoChild
    \/ WaitInterrupted
    \/ StartJobs
    \/ JobsLock
    \/ ListJobs
    \/ FgBadArgument
    \/ StartFg
    \/ FgLock
    \/ FgNotFound
    \/ FgFound
    \/ FgWaitReaps
    \/ FgWaitFindsNoChild
    \/ FgLockAgain
    \/ FgDone
    \/ Return

Spec == Init /\ [][Next]_vars

\* the steps of _sigchld_handler, the delivery of the signal included
HandlerStep ==
    \/ HandlerEnter
    \/ HandlerNoChild
    \/ HandlerNoneEnded
    \/ HandlerReap
    \/ HandlerLock
    \/ HandlerUpdate

\* the steps of _builtin_fg
FgStep ==
    \/ FgLock
    \/ FgNotFound
    \/ FgFound
    \/ FgWaitReaps
    \/ FgWaitFindsNoChild
    \/ FgLockAgain
    \/ FgDone

\* the interpreter with progress: the Python VM goes on executing the code
\* it is in (the handler, _builtin_fg) whenever that code can take a step,
\* a SIGCHLD that is pending is delivered, and every child ends at some time
LiveSpec ==
    /\ Spec
    /\ WF_vars(HandlerStep)
    /\ WF_vars(FgStep)
    /\ WF_vars(ChildTerminates)

-----------------------------------------------------------------------------
(* Properties of the interpreter (checked under Spec). *)

\* the main flow is at the return of a run_pipeline call that left by path
ReturnedBy(path) == pc = "return" /\ exitpath = path

\* the messages of a printed sequence
Printed(out) == {out[k] : k \in DOMAIN out}

\* the pids of the call in progress
CallPids == {procs[k] : k \in DOMAIN procs}

\* C1: a foreground pipeline whose stages all launched and whose wait was not
\* interrupted returns (False, e), e the return code of the last stage's
\* process (its exit code, or minus the signal that ended it), however the
\* handler interleaved with the wait.
C1_ForegroundReturnsLastExitCode ==
    ReturnedBy("waited") => ret = Some(<<FALSE, Some(Returncode(proc[last].how))>>)

\* nothing is in progress and no SIGCHLD is pending
Quiescent == pc = "idle" /\ hstack = <<>> /\ ~sigpending

\* C2: a single-process background pipeline registers exactly one new job,
\* with that one pid; and once the process has exited with code c and the
\* interpreter has come to rest, the job is done(c) (unless fg, a further
\* operation of the caller, has overwritten the status).
C2_BackgroundJobBecomesDone ==
    /\ (ReturnedBy("background") /\ Len(procs) = 1) =>
            /\ next_job_id = entry_next + 1
            /\ entry_next \in DOMAIN jobs
            /\ jobs[entry_next].pids = procs
    /\ \A j \in DOMAIN jobs :
        LET ps == jobs[j].pids
        IN  (/\ Quiescent
             /\ Len(ps) = 1
             /\ proc[ps[1]].st = "reaped"
             /\ WIFEXITED(proc[ps[1]].how)
             /\ jobs[j].status # DoneNoCode)
            => jobs[j].status = Done(WEXITSTATUS(proc[ps[1]].how))

\* running, then stopped, then done
StatusRank(st) == CASE st = Running -> 0 [] st = Stopped -> 1 [] OTHER -> 2

\* C3: a job's status never moves back: done is never followed by running or
\* stopped, stopped never by running; and no job leaves the table.
C3_StatusNeverReverses ==
    [][\A j \in DOMAIN jobs :
            /\ j \in DOMAIN jobs'
            /\ StatusRank(jobs'[j].status) >= StatusRank(jobs[j].status)]_vars

\* C4: the job ids _register_job issued start at 1, are strictly increasing
\* in issue order and are never reused: each issue made a table entry of
\* its own, and the table holds exactly the issued ids.
C4_JobIdsIncrease ==
    /\ issued # <<>> => issued[1] = 1
    /\ \A k, l \in DOMAIN issued : k < l => issued[k] < issued[l]
    /\ DOMAIN jobs = {issued[k] : k \in DOMAIN issued}
    /\ Cardinality(DOMAIN jobs) = Len(issued)
    /\ \A k \in DOMAIN issued : issued[k] < next_job_id

\* C4's case: a second id was issued after the first job was done
C4_Witness ==
    /\ Len(issued) = 2
    /\ jobs[1].status \notin {Running, Stopped}
    /\ jobs[2].status = Running

\* the step in which run_pipeline leaves because Popen raised FileNotFoundError
NotFoundStep == pc = "loop" /\ exitpath' = "not found"

\* C5: when the launch of stage k fails because the program is not found,
\* run_pipeline prints an error naming the program, leaves none of the
\* processes launched before running, has launched the stages before k and
\* no other, registers no job (table and counter are as they were when the
\* call began, and no job holds a pid of the pipeline) and returns
\* (False, None), the background flag set or not.
C5_NotFoundAborts ==
    [][NotFoundStep =>
        /\ pc' = "return"
        /\ mout' = Append(SubSeq(mout', 1, Len(mout') - 1),
                          <<"command not found", cmds[idx].argv[1]>>)
        /\ \A p \in CallPids : proc'[p].st # "running"
        /\ DOMAIN proc' = DOMAIN proc
        /\ Len(procs') = Cardinality({k \in Launchable(cmds) : k < idx})
        /\ jobs' = jobs
        /\ next_job_id' = entry_next
        /\ \A j \in DOMAIN jobs' : \A k \in DOMAIN jobs'[j].pids :
                jobs'[j].pids[k] \notin CallPids
        /\ ret' = Some(<<FALSE, None>>)]_vars

\* C5's case: the second stage of a background pipeline was not found, and
\* the first stage's process was killed
C5_Witness ==
    /\ ReturnedBy("not found")
    /\ is_bg
    /\ idx = 2 /\ Len(procs) = 1
    /\ proc[procs[1]].how = Signaled(SIGKILL)

\* an open of a redirection file failed in the call
OpenFailed ==
    \E m \in Printed(mout) :
        m[1] \in {"redirection error (input)", "redirection error (output)"}

\* C6: when the open of a redirection file fails, run_pipeline aborts: it
\* returns (False, None) without having waited for the pipeline or
\* registered a job, and none of the pipeline's processes is left running.
C6_OpenFailureAborts ==
    (pc = "return" /\ OpenFailed) =>
        /\ exitpath \notin {"waited", "background"}
        /\ ret = Some(<<FALSE, None>>)
        /\ \A p \in CallPids : proc[p].st # "running"

\* the step that ends a loop iteration of the handler: _update_job_status
\* for the pid just reaped, and the prints
UpdateStep ==
    /\ hstack # <<>> /\ top.pc = "update"
    /\ Len(hstack') = Len(hstack)
    /\ hstack'[Len(hstack)].pc = "waitpid"

\* C7: for a reaped pid that belongs to a job, the handler sets that job's
\* status to done(exit code) and prints a notification line, whether the
\* child exited (with any code) or was ended by a signal.
C7_ReapedJobProcessMarkedDone ==
    [][(UpdateStep /\ OwnerOf(top.pid) # None) =>
        LET j == OwnerOf(top.pid)[1]
            how == proc[top.pid].how
        IN  /\ jobs'[j].status[1] = "done"
            /\ WIFEXITED(how) => jobs'[j].status = Done(WEXITSTATUS(how))
            /\ \E m \in Printed(hout') : m[1] = "[job] process exited with" /\ m[2] = j]_vars

\* C8: for a reaped pid that belongs to no job, the handler changes nothing
\* in the table and prints nothing, neither a notification nor a prompt.
C8_UnownedPidIgnored ==
    [][(UpdateStep /\ OwnerOf(top.pid) = None) => (jobs' = jobs /\ hout' = <<>>)]_vars

\* C12: when run_pipeline returns, by whichever return statement (foreground
\* completion, background registration, launch failure, no launchable stage,
\* interrupted wait), neither of the redirection files it opened is open.
C12_FilesClosedOnReturn ==
    (pc = "return" /\ exitpath # "") => (in_file # "open" /\ out_file # "open")

\* C12's case: the wait of a pipeline that opened both files was interrupted,
\* and both files are closed
C12_Witness ==
    /\ ReturnedBy("interrupted")
    /\ in_file = "closed"
    /\ out_file = "closed"

\* a step of the main flow inside an fg call whose job id is not in the table
FgUnknownStep ==
    /\ pc \in {"fg", "fg lookup"}
    /\ fgjid \notin DOMAIN jobs
    /\ pc' # pc

\* C13: fg with a job id that is not in the table changes nothing and
\* reports not-found: every step of the call leaves the table, the id
\* counter and every process as they were (no process is waited on), and the
\* call ends having printed the not-found report.
C13_FgUnknownChangesNothing ==
    [][FgUnknownStep =>
        /\ jobs' = jobs
        /\ next_job_id' = next_job_id
        /\ proc' = proc
        /\ pc' \in {"fg lookup", "return"}
        /\ pc' = "return" =>
                /\ mout' = <<<<"fg: job not found", fgjid>>>>
                /\ ret' = Some(<<TRUE>>)]_vars

\* C13's case: fg reported not-found for an id one past the last issued,
\* with a job in the table whose process has ended and is not reaped
C13_Witness ==
    /\ pc = "return"
    /\ mout = <<<<"fg: job not found", fgjid>>>>
    /\ fgjid = next_job_id
    /\ DOMAIN jobs # {}
    /\ Zombies # {}

\* the step in which run_pipeline returns
PipelineReturns == pc # "return" /\ pc' = "return" /\ exitpath' # ""

\* the pipeline of the call has the background flag on its last command and
\* every stage that has an argv is launched
BackgroundLaunched ==
    /\ cmds # <<>> /\ is_bg
    /\ idx > Len(cmds)
    /\ procs # <<>>
    /\ Len(procs) = Cardinality(Launchable(cmds))

\* C14: a job enters the table exactly when a pipeline whose last command
\* has the background flag has launched all its stages: run_pipeline returns
\* having added one job, with the pids of all the processes it launched,
\* in that case, and no job in any other; and no step of the executor, the
\* handler, jobs or fg removes a job or changes its pids or its cmdline.
C14_JobsCreatedOnceAndKept ==
    [][/\ \A j \in DOMAIN jobs :
            /\ j \in DOMAIN jobs'
            /\ jobs'[j].pids = jobs[j].pids
            /\ jobs'[j].cmdline = jobs[j].cmdline
       /\ DOMAIN jobs' # DOMAIN jobs =>
            /\ PipelineReturns /\ BackgroundLaunched
            /\ \E j \in DOMAIN jobs' \ DOMAIN jobs :
                    /\ DOMAIN jobs' = DOMAIN jobs \cup {j}
                    /\ jobs'[j].pids = procs
                    /\ jobs'[j].cmdline = Cmdline(cmds)
       /\ PipelineReturns =>
            /\ DOMAIN jobs' # DOMAIN jobs <=> BackgroundLaunched
            /\ DOMAIN jobs' = DOMAIN jobs => next_job_id' = entry_next]_vars

\* C14's case: a job was created with the two pids of its pipeline, and
\* keeps them after the handler and fg have changed its status
C14_Witness ==
    /\ pc = "return" /\ fgjid = 1
    /\ DOMAIN jobs = {1}
    /\ jobs[1].pids = <<1, 2>>
    /\ jobs[1].cmdline = <<"a", "b">>
    /\ jobs[1].status = DoneNoCode
    /\ proc[1].st = "reaped" /\ proc[2].st = "reaped"

\* the step in which the foreground wait is interrupted
InterruptedStep == pc = "wait" /\ exitpath' = "interrupted"

\* C15: when KeyboardInterrupt interrupts the foreground wait, run_pipeline
\* leaves none of the processes it launched running, returns (False, None)
\* and registers no job: table and counter are as they were when the call
\* began, and no job holds a pid of the pipeline.
C15_InterruptKillsAll ==
    [][InterruptedStep =>
        /\ pc' = "return"
        /\ \A p \in CallPids : proc'[p].st # "running"
        /\ ret' = Some(<<FALSE, None>>)
        /\ jobs' = jobs
        /\ next_job_id' = entry_next
        /\ \A j \in DOMAIN jobs' : \A k \in DOMAIN jobs'[j].pids :
                jobs'[j].pids[k] \notin CallPids]_vars

\* C15's case: the wait of a two-stage pipeline was interrupted while both
\* processes ran, and both were killed
C15_Witness ==
    /\ ReturnedBy("interrupted")
    /\ Len(procs) = 2
    /\ \A p \in CallPids : proc[p] = [st |-> "zombie", how |-> Signaled(SIGKILL)]

\* C16: fg on a job of the table, every process of which ends at some time
\* (checked under LiveSpec), returns at some time with the job's status
\* 'done', however the handler interleaves with it.
C16_FgReturnsWithJobDone ==
    (pc = "fg" /\ fgjid \in DOMAIN jobs)
        ~> (pc = "return" /\ fgjid \in DOMAIN jobs /\ jobs[fgjid].status = DoneNoCode)

\* the main flow is inside a with _jobs_lock block
MainInLock == pc \in {"registering", "listing", "fg lookup", "fg done"}

\* C17: the table and the counter are read and written under the lock only
\* (the main flow is inside a with block only as the holder, and so is a
\* handler frame inside _update_job_status), and the handler never waits for
\* the lock while the flow it interrupted holds it.
C17_LockHeldAndNoSelfDeadlock ==
    /\ MainInLock <=> lock = "main"
    /\ (\E k \in DOMAIN hstack : hstack[k].pc = "update") <=> lock = "handler"
    /\ ~(hstack # <<>> /\ top.pc = "lock" /\ lock # "free")

\* C18: when run_pipeline returns, by whichever return statement, none of the
\* stdout pipes it made for its stages is open in the interpreter.
C18_NoPipeOpenOnReturn ==
    (pc = "return" /\ exitpath # "") => \A k \in DOMAIN pipes : pipes[k] # "open"

\* C19: an invocation of the handler returns only when no ended child is
\* left unreaped, and (checked under LiveSpec) every invocation returns.
C19_HandlerReapsAllAndReturns ==
    /\ [][Len(hstack') < Len(hstack) => Zombies = {}]_vars
    /\ (hstack # <<>>) ~> (hstack = <<>>)

\* C20: a job of more than one process is done only when every one of its
\* processes has ended.
C20_DoneOnlyWhenAllEnded ==
    \A j \in DOMAIN jobs :
        (Len(jobs[j].pids) > 1 /\ jobs[j].status[1] = "done")
            => \A k \in DOMAIN jobs[j].pids : proc[jobs[j].pids[k]].st # "running"

-----------------------------------------------------------------------------
(* Properties of parse_tokens (checked under ParseSpec). *)

\* a dict with no argv, no input path, no output path and no background flag
Blank(c) == c.argv = <<>> /\ c.in = None /\ c.out = None /\ ~c.bg

\* C9: the pipeline parse_tokens returns holds no blank dict: an empty stage
\* before, between or after pipe tokens is dropped.
C9_NoBlankStage ==
    ppc = "done" => \A k \in DOMAIN pcmds : ~Blank(pcmds[k])

\* only the first dict has an input path, only the last an output path or
\* the background flag
FirstInLastOut(c) ==
    \A k \in DOMAIN c :
        /\ k > 1 => c[k].in = None
        /\ k < Len(c) => c[k].out = None /\ ~c[k].bg

\* C10 as claimed: in every pipeline parse_tokens returns, only the first
\* stage has an input path and only the last an output path or the
\* background flag.
C10_FirstInLastOut ==
    ppc = "done" => FirstInLastOut(pcmds)

\* no "<" token comes after a "|" token
NoInAfterPipe ==
    \A a, b \in DOMAIN tokens :
        (a < b /\ tokens[a] = "|") => tokens[b] # "<"

\* no ">", ">>" or "&" token comes before a "|" token
NoOutBeforePipe ==
    \A a, b \in DOMAIN tokens :
        (a < b /\ tokens[b] = "|") => tokens[a] \notin {">", ">>", "&"}

\* C10 as amended: for a token list in which no "<" comes after a "|" and
\* no ">", ">>" or "&" comes before a "|", only the first stage of the
\* pipeline has an input path and only the last an output path or the
\* background flag.
C10_FirstInLastOutWhenTypedSo ==
    (ppc = "done" /\ NoInAfterPipe /\ NoOutBeforePipe)
        => FirstInLastOut(pcmds)

\* C10's case: a two-stage pipeline with an input path on the first stage
\* and the background flag on the last
C10_Witness ==
    /\ ppc = "done" /\ NoInAfterPipe /\ NoOutBeforePipe
    /\ Len(pcmds) = 2
    /\ pcmds[1].in # None
    /\ pcmds[2].bg

-----------------------------------------------------------------------------
(* Properties of parse_line (checked under LineSpec). *)

\* the place of the quote that closes the one at s: the first later
\* occurrence of the same character, or one past the end of the line
MatchOf(s) ==
    LET ms == {m \in (s + 1)..LL : line[m] = line[s]}
    IN  IF ms = {} THEN LL + 1 ELSE CHOOSE m \in ms : \A m2 \in ms : m <= m2

\* C11: the text between a quote and its matching quote becomes one token,
\* and parse_tokens, when it comes to dispatch on that token, takes it for a
\* word and never for a pipe, a redirection or the background operator.
C11_QuotedIsWord ==
    /\ \A k \in DOMAIN tokens :
        qstart[k] # 0 =>
            tokens[k] = Join(SubSeq(line, qstart[k] + 1, MatchOf(qstart[k]) - 1))
    /\ (ppc = "loop" /\ i <= L /\ qstart[i] # 0) => tokens[i] \notin Operators

====
